---- MODULE Spec2Model ----
(***************************************************************************)
(* Model of rllib/core/models/tf/encoder.py: the three encoder variants    *)
(* TfCNNEncoder, TfMLPEncoder and TfLSTMEncoder, their input and output    *)
(* specs, get_initial_state and _forward, driven by a caller that builds   *)
(* input dictionaries and threads recurrent state between calls.           *)
(*                                                                         *)
(* Tensors are records [tag, shape, dtype, data]; data maps index tuples   *)
(* to integers modulo Modulus.  Python indexes from 0, the model from 1:   *)
(* axis k of the code is position k+1 of a shape, layer i of the code is   *)
(* element i+1 of self.lstms.                                              *)
(***************************************************************************)
EXTENDS Integers, Sequences, FiniteSets, TLC

VARIABLES self, last, state0, chain

vars == <<self, last, state0, chain>>

(* ----------------------------- bounds ---------------------------------- *)
\* Largest batch size and sequence length of an observation the caller sends.
MaxBatch == 2
MaxTime == 2
\* Largest num_lstm_layers and hidden_dim of an LSTM configuration.
MaxLayers == 2
MaxHidden == 2
\* Largest input_dims[0] of an MLP configuration (its output_dims[0] goes one further).
MaxDim == 2
\* Tensor elements are integers modulo Modulus; fill patterns are 0..MaxSeed.
Modulus == 5
MaxSeed == 1
\* Longest run of calls that feed the previous STATE_OUT back as STATE_IN.
MaxChain == 2

(* ------------------------- reserved keys ------------------------------- *)
OBS == "obs"
SEQ_LENS == "seq_lens"
STATE_IN == "state_in"
STATE_OUT == "state_out"
ENCODER_OUT == "encoder_out"

(* ----------------------------- values ---------------------------------- *)
None == [tag |-> "none"]

RECURSIVE Indices(_)
\* All index tuples of a tensor of the given shape.
Indices(shape) ==
  IF shape = <<>> THEN {<<>>}
  ELSE {<<i>> \o rest : i \in 1..Head(shape), rest \in Indices(Tail(shape))}

Tensor(shape, dtype, f(_)) ==
  [tag |-> "tensor", shape |-> shape, dtype |-> dtype,
   data |-> [idx \in Indices(shape) |-> f(idx)]]

Dict(items) == [tag |-> "dict", items |-> items]

IsTensor(v) == v.tag = "tensor"
IsDict(v) == v.tag = "dict"
Rank(t) == Len(t.shape)

\* The element of a one-element set: The({e(x) : x \in {v}}) is e(v), v computed once.
The(S) == CHOOSE x \in S : TRUE

RECURSIVE SumSeq(_)
SumSeq(s) == IF s = <<>> THEN 0 ELSE Head(s) + SumSeq(Tail(s))

RECURSIVE SumSet(_, _)
\* Sum of t.data over the index tuples of S.
SumSet(t, S) ==
  IF S = {} THEN 0
  ELSE LET i == CHOOSE j \in S : TRUE IN t.data[i] + SumSet(t, S \ {i})

\* tf.zeros(shape)
Zeros(shape) == Tensor(shape, "float32", LAMBDA idx : 0)

\* A caller-made tensor: element values vary with every index position.
Fill(shape, dtype, seed) ==
  Tensor(shape, dtype,
         LAMBDA idx : (seed + SumSeq([k \in 1..Len(idx) |-> (k + 1) * idx[k]])) % Modulus)

\* tf.cast(t, tf.float32): same shape and elements, dtype float32.
Cast(t, dtype) == [t EXCEPT !.dtype = dtype]

\* Mutant: the transpose to layers-first is left out.
TransposeOmitted(s) == s

\* tf.transpose(s, perm=[1, 0, 2]) of a rank-3 tensor.
Transpose102(s) ==
  Tensor(<<s.shape[2], s.shape[1], s.shape[3]>>, s.dtype,
         LAMBDA idx : s.data[<<idx[2], idx[1], idx[3]>>])

\* t[i] of the code (i counted from 1 here): the i-th slice along axis 0.
Slice0(t, i) ==
  Tensor(Tail(t.shape), t.dtype, LAMBDA idx : t.data[<<i>> \o idx])

\* Mutant: the per-layer states are stacked on axis 0, giving layers-first.
Stack0(ts) ==
  Tensor(<<Len(ts), ts[1].shape[1], ts[1].shape[2]>>, ts[1].dtype,
         LAMBDA idx : ts[idx[1]].data[<<idx[2], idx[3]>>])

\* tf.stack(ts, 1) of a non-empty list of rank-2 tensors of one shape.
Stack1(ts) ==
  Tensor(<<ts[1].shape[1], Len(ts), ts[1].shape[2]>>, ts[1].dtype,
         LAMBDA idx : ts[idx[2]].data[<<idx[1], idx[3]>>])

(* ------------------- specs (TfTensorSpec, SpecDict) -------------------- *)
\* TfTensorSpec("b, w, h, c", w=4, ...): named dimensions, some bound to a size.
TfTensorSpec(dims, bound) == [tag |-> "tensorspec", dims |-> dims, bound |-> bound]

\* SpecDict({...}); a plain dict nested in it is a nested SpecDict.
SpecDict(items) == [tag |-> "specdict", items |-> items]

\* A tensor matches a spec iff the ranks agree and every bound dimension has
\* exactly the bound size; unbound dimensions accept any size.
Matches(v, s) ==
  /\ IsTensor(v)
  /\ Len(v.shape) = Len(s.dims)
  /\ \A i \in 1..Len(s.dims) :
       s.dims[i] \in DOMAIN s.bound => v.shape[i] = s.bound[s.dims[i]]

RECURSIVE Violations(_, _, _)
\* The key paths of spec that data violates: a key of the spec missing from the
\* data, or present with a value that does not match.  A None spec only asks
\* for the key; keys of the data that the spec does not name are ignored.
Violations(data, spec, prefix) ==
  UNION { IF ~IsDict(data) \/ key \notin DOMAIN data.items
            THEN {prefix \o <<key>>}
            ELSE LET s == spec.items[key]
                     v == data.items[key]
                 IN  CASE s.tag = "none" -> {}
                       [] s.tag = "tensorspec" ->
                            IF Matches(v, s) THEN {} ELSE {prefix \o <<key>>}
                       [] s.tag = "specdict" -> Violations(v, s, prefix \o <<key>>)
        : key \in DOMAIN spec.items }

(* --------------------------- configurations ---------------------------- *)
\* CNNEncoderConfig: input_dims (w, h, c), output_dims (d,), and one 1x1
\* filter of stride 1 as cnn_filter_specifiers.
CNNConfigs ==
  { [input_dims |-> d, output_dims |-> <<o>>, cnn_filter_specifiers |-> <<<<1, 1, 1>>>>]
      : d \in {<<4, 4, 3>>, <<1, 2, 1>>}, o \in {8, 2} }

\* MLPEncoderConfig: input_dims (d,), hidden_layer_dims, output_dims (d,).
MLPConfigs ==
  { [input_dims |-> <<i>>, hidden_layer_dims |-> <<2>>, output_dims |-> <<o>>]
      : i \in 1..MaxDim, o \in 1..(MaxDim + 1) }

\* LSTMEncoderConfig: input_dims (d,), hidden_dim, num_lstm_layers,
\* batch_major, use_bias, output_dims (d,).
LSTMConfigs ==
  { [input_dims |-> <<i>>, hidden_dim |-> h, num_lstm_layers |-> l,
     batch_major |-> bm, use_bias |-> TRUE, output_dims |-> <<o>>]
      : i \in {2}, h \in 1..MaxHidden, l \in 1..MaxLayers, bm \in BOOLEAN, o \in {1, 3} }

(* ------------------- layers of the tensor library ---------------------- *)
\* tf.keras.layers.Dense(units): the constructed layer; kernel names its weights.
Dense(units, kernel) == [layer |-> "Dense", units |-> units, kernel |-> kernel]

\* Calling a Dense layer: the last axis becomes units wide, all others are kept.
DenseCall(layer, x) ==
  LET r == Rank(x)
      lead(idx) == SubSeq(idx, 1, r - 1)
  IN  Tensor(SubSeq(x.shape, 1, r - 1) \o <<layer.units>>, "float32",
             LAMBDA idx :
               (layer.kernel + idx[r] *
                  (1 + SumSet(x, {lead(idx) \o <<k>> : k \in 1..x.shape[r]}))) % Modulus)

\* TfCNN(...) with one 1x1 filter of stride 1: (b, w, h, c) -> (b, w, h, 1).
TfCNN(input_dims, cnn_filter_specifiers) ==
  [layer |-> "TfCNN", input_dims |-> input_dims, filters |-> cnn_filter_specifiers]

TfCNNCall(layer, x) ==
  Tensor(<<x.shape[1], x.shape[2], x.shape[3], Len(layer.filters)>>, "float32",
         LAMBDA idx :
           (1 + SumSet(x, {<<idx[1], idx[2], idx[3], k>> : k \in 1..x.shape[4]})) % Modulus)

\* tf.keras.layers.Flatten(): (b, w, h, f) -> (b, w*h*f), row-major.
FlattenCall(x) ==
  LET w == x.shape[2]
      h == x.shape[3]
      f == x.shape[4]
  IN  Tensor(<<x.shape[1], w * h * f>>, x.dtype,
             LAMBDA idx :
               LET n == idx[2] - 1
               IN  x.data[<<idx[1], (n \div (h * f)) + 1, ((n \div f) % h) + 1, (n % f) + 1>>])

\* tf.keras.Sequential([cnn, Flatten(), Dense(...)]) applied to an observation.
SequentialCall(net, x) == DenseCall(net[3], FlattenCall(TfCNNCall(net[1], x)))

\* TfMLP(...): one Dense per hidden width, then the output Dense.
TfMLP(input_dim, hidden_layer_dims, output_dim) ==
  [k \in 1..Len(hidden_layer_dims) |-> Dense(hidden_layer_dims[k], k)]
    \o <<Dense(output_dim, Len(hidden_layer_dims) + 1)>>

RECURSIVE TfMLPCall(_, _)
TfMLPCall(net, x) ==
  IF net = <<>> THEN x ELSE TfMLPCall(Tail(net), DenseCall(Head(net), x))

\* Mutant: the layer is built with stateful=True and keeps its last states.
LSTMStateful(units, time_major, use_bias, kernel) ==
  [layer |-> "LSTM", units |-> units, time_major |-> time_major, use_bias |-> use_bias,
   return_sequences |-> TRUE, return_state |-> TRUE, stateful |-> TRUE,
   states |-> None, kernel |-> kernel]

\* tf.keras.layers.LSTM(units, time_major=..., use_bias=..., return_sequences=True,
\* return_state=True); stateful keeps its default, so the layer stores no states.
LSTM(units, time_major, use_bias, kernel) ==
  [layer |-> "LSTM", units |-> units, time_major |-> time_major, use_bias |-> use_bias,
   return_sequences |-> TRUE, return_state |-> TRUE, stateful |-> FALSE,
   states |-> None, kernel |-> kernel]

\* Batch size and sequence length of a layer input in the layer's layout.
BatchOf(layer, x) == IF layer.time_major THEN x.shape[2] ELSE x.shape[1]
TimeOf(layer, x) == IF layer.time_major THEN x.shape[1] ELSE x.shape[2]
SeqIdx(layer, b, t, k) == IF layer.time_major THEN <<t, b, k>> ELSE <<b, t, k>>

\* Calling an LSTM layer on sequence x with initial_state (h0, c0).  The initial
\* states must be (batch, units) for the batch of x, else the layer raises.  It
\* returns the full output sequence, the final hidden state (the output at
\* the last time step) and the final cell state, and the layer after the call.
LSTMCall(layer, x, h0, c0) ==
  LET B == BatchOf(layer, x)
      T == TimeOf(layer, x)
      acc(b, t) == SumSet(x, {SeqIdx(layer, b, tt, k) : tt \in 1..t, k \in 1..x.shape[3]})
      hval(b, t, k) ==
        (layer.kernel + acc(b, t) + h0.data[<<b, k>>] + 2 * c0.data[<<b, k>>] + k) % Modulus
      cval(b, k) ==
        (2 * layer.kernel + acc(b, T) + 2 * h0.data[<<b, k>>] + c0.data[<<b, k>>] + 3 * k)
          % Modulus
  IN  IF Rank(x) # 3 \/ h0.shape # <<B, layer.units>> \/ c0.shape # <<B, layer.units>>
        THEN [ok |-> FALSE, layer |-> layer]
        ELSE LET out == Tensor(IF layer.time_major THEN <<T, B, layer.units>>
                                                     ELSE <<B, T, layer.units>>,
                               "float32",
                               LAMBDA idx : IF layer.time_major
                                              THEN hval(idx[2], idx[1], idx[3])
                                              ELSE hval(idx[1], idx[2], idx[3]))
                 h == Tensor(<<B, layer.units>>, "float32",
                             LAMBDA idx : hval(idx[1], T, idx[2]))
                 c == Tensor(<<B, layer.units>>, "float32",
                             LAMBDA idx : cval(idx[1], idx[2]))
             IN  [ok |-> TRUE, out |-> out, h |-> h, c |-> c,
                  layer |-> IF layer.stateful
                              THEN [layer EXCEPT !.states = Dict([h |-> h, c |-> c])]
                              ELSE layer]


(* ----------------------------- TfCNNEncoder --------------------------- *)
\* TfCNNEncoder.__init__: self.net = Sequential([TfCNN, Flatten, Dense(output_dims[0])]).
TfCNNEncoder(config) ==
  [kind |-> "cnn", config |-> config,
   net |-> << TfCNN(config.input_dims, config.cnn_filter_specifiers),
              [layer |-> "Flatten"],
              Dense(config.output_dims[1], 1) >>]

\* Mutant: the width of the observation is left unbound.
CNNInputSpecsNoWidth(slf) ==
  SpecDict([obs |-> TfTensorSpec(<<"b", "w", "h", "c">>,
                                 [h |-> slf.config.input_dims[2],
                                  c |-> slf.config.input_dims[3]]),
            state_in |-> None,
            seq_lens |-> None])

CNNInputSpecs(slf) ==
  SpecDict([obs |-> TfTensorSpec(<<"b", "w", "h", "c">>,
                                 [w |-> slf.config.input_dims[1],
                                  h |-> slf.config.input_dims[2],
                                  c |-> slf.config.input_dims[3]]),
            state_in |-> None,
            seq_lens |-> None])

CNNOutputSpecs(slf) ==
  SpecDict([encoder_out |-> TfTensorSpec(<<"b", "d">>, [d |-> slf.config.output_dims[1]]),
            state_out |-> None])

\* Mutant: the CNN encoder drops the state instead of passing it through.
CNNForwardDropsState(slf, inputs) ==
  [ok |-> TRUE,
   value |-> Dict([encoder_out |-> SequentialCall(slf.net, inputs.items[OBS]),
                   state_out |-> None]),
   calls |-> <<>>, linear_calls |-> <<>>, self |-> slf]

\* TfCNNEncoder._forward
CNNForward(slf, inputs) ==
  [ok |-> TRUE,
   value |-> Dict([encoder_out |-> SequentialCall(slf.net, inputs.items[OBS]),
                   state_out |-> inputs.items[STATE_IN]]),
   calls |-> <<>>, linear_calls |-> <<>>, self |-> slf]

(* ----------------------------- TfMLPEncoder --------------------------- *)
\* TfMLPEncoder.__init__: self.net = TfMLP(input_dims[0], ..., output_dims[0]).
TfMLPEncoder(config) ==
  [kind |-> "mlp", config |-> config,
   net |-> TfMLP(config.input_dims[1], config.hidden_layer_dims, config.output_dims[1])]

MLPInputSpecs(slf) ==
  SpecDict([obs |-> TfTensorSpec(<<"b", "d">>, [d |-> slf.config.input_dims[1]])])

MLPOutputSpecs(slf) ==
  SpecDict([encoder_out |-> TfTensorSpec(<<"b", "d">>, [d |-> slf.config.output_dims[1]]),
            state_out |-> None])

\* Mutant: the MLP encoder passes a supplied state through.
MLPForwardKeepsState(slf, inputs) ==
  [ok |-> TRUE,
   value |-> Dict([encoder_out |-> TfMLPCall(slf.net, inputs.items[OBS]),
                   state_out |-> IF STATE_IN \in DOMAIN inputs.items
                                   THEN inputs.items[STATE_IN] ELSE None]),
   calls |-> <<>>, linear_calls |-> <<>>, self |-> slf]

\* TfMLPEncoder._forward
MLPForward(slf, inputs) ==
  [ok |-> TRUE,
   value |-> Dict([encoder_out |-> TfMLPCall(slf.net, inputs.items[OBS]),
                   state_out |-> None]),
   calls |-> <<>>, linear_calls |-> <<>>, self |-> slf]

(* ----------------------------- TfLSTMEncoder -------------------------- *)
\* Mutant: the final Dense layer is built hidden_dim wide.
TfLSTMEncoderHiddenWide(config) ==
  [kind |-> "lstm", config |-> config,
   lstms |-> [i \in 1..config.num_lstm_layers |->
                LSTM(config.hidden_dim, ~config.batch_major, config.use_bias, i)],
   linear |-> Dense(config.hidden_dim, config.num_lstm_layers + 1)]

\* TfLSTMEncoder.__init__: num_lstm_layers LSTM layers appended in order, then
\* the final Dense(output_dims[0]).
TfLSTMEncoder(config) ==
  [kind |-> "lstm", config |-> config,
   lstms |-> [i \in 1..config.num_lstm_layers |->
                LSTM(config.hidden_dim, ~config.batch_major, config.use_bias, i)],
   linear |-> Dense(config.output_dims[1], config.num_lstm_layers + 1)]

\* The {"h": ..., "c": ...} entry of the LSTM input and output specs.
LSTMInputStateSpec(slf) ==
  SpecDict([h |-> TfTensorSpec(<<"b", "l", "h">>,
                               [h |-> slf.config.hidden_dim,
                                l |-> slf.config.num_lstm_layers]),
            c |-> TfTensorSpec(<<"b", "l", "h">>,
                               [h |-> slf.config.hidden_dim,
                                l |-> slf.config.num_lstm_layers])])

\* Mutant: the output state spec binds l and h the wrong way round.
LSTMOutputStateSpecSwapped(slf) ==
  SpecDict([h |-> TfTensorSpec(<<"b", "l", "h">>,
                               [h |-> slf.config.num_lstm_layers,
                                l |-> slf.config.hidden_dim]),
            c |-> TfTensorSpec(<<"b", "l", "h">>,
                               [h |-> slf.config.num_lstm_layers,
                                l |-> slf.config.hidden_dim])])

LSTMOutputStateSpec(slf) ==
  SpecDict([h |-> TfTensorSpec(<<"b", "l", "h">>,
                               [h |-> slf.config.hidden_dim,
                                l |-> slf.config.num_lstm_layers]),
            c |-> TfTensorSpec(<<"b", "l", "h">>,
                               [h |-> slf.config.hidden_dim,
                                l |-> slf.config.num_lstm_layers])])

LSTMInputSpecs(slf) ==
  SpecDict([obs |-> TfTensorSpec(<<"b", "t", "d">>, [d |-> slf.config.input_dims[1]]),
            state_in |-> LSTMInputStateSpec(slf)])

LSTMOutputSpecs(slf) ==
  SpecDict([encoder_out |-> TfTensorSpec(<<"b", "t", "d">>, [d |-> slf.config.output_dims[1]]),
            state_out |-> LSTMOutputStateSpec(slf)])

\* TfLSTMEncoder.get_initial_state reads config.num_layers, which the
\* configuration may not define (its layer count is num_lstm_layers): attr is
\* 0 when the attribute is missing and the read raises, else the value read.
LSTMGetInitialState(slf, attr) ==
  IF attr = 0 THEN [tag |-> "raised", error |-> "AttributeError"]
  ELSE Dict([h |-> Zeros(<<attr, slf.config.hidden_dim>>),
             c |-> Zeros(<<attr, slf.config.hidden_dim>>)])

\* tree.map_structure(lambda s: tf.transpose(s, perm=[1, 0, 2]), inputs[STATE_IN])
StatesIn(state_in) ==
  [h |-> Transpose102(state_in.items["h"]), c |-> Transpose102(state_in.items["c"])]

RECURSIVE LSTMLoopUnchained(_, _, _, _, _, _, _)
\* Mutant: every layer is fed the observation, not the output of the layer before.
LSTMLoopUnchained(lstms, i, out, states_in, hs, cs, calls) ==
  IF i > Len(lstms)
    THEN [ok |-> TRUE, out |-> out, hs |-> hs, cs |-> cs, calls |-> calls, lstms |-> lstms]
  ELSE IF i > states_in.h.shape[1] \/ i > states_in.c.shape[1]
    THEN [ok |-> FALSE, calls |-> calls, lstms |-> lstms]
  ELSE The({ IF ~r.ok
               THEN [ok |-> FALSE, calls |-> calls, lstms |-> lstms]
               ELSE LSTMLoopUnchained([lstms EXCEPT ![i] = r.layer], i + 1, out, states_in,
                                      Append(hs, r.h), Append(cs, r.c),
                                      Append(calls, [layer |-> lstms[i].kernel, x |-> out,
                                                     h0 |-> r.h0, c0 |-> r.c0,
                                                     out |-> r.out, h |-> r.h, c |-> r.c]))
             : r \in { [h0 |-> h0, c0 |-> c0] @@ LSTMCall(lstms[i], out, h0, c0)
                         : h0 \in {Slice0(states_in.h, i)},
                           c0 \in {Slice0(states_in.c, i)} } })

RECURSIVE LSTMLoop(_, _, _, _, _, _, _)
\* for i, layer in enumerate(self.lstms): out, h, c = layer(out, (h_in[i], c_in[i])).
\* calls records every layer invocation in the order it happened.
LSTMLoop(lstms, i, out, states_in, hs, cs, calls) ==
  IF i > Len(lstms)
    THEN [ok |-> TRUE, out |-> out, hs |-> hs, cs |-> cs, calls |-> calls, lstms |-> lstms]
  ELSE IF i > states_in.h.shape[1] \/ i > states_in.c.shape[1]
    THEN [ok |-> FALSE, calls |-> calls, lstms |-> lstms]
  ELSE The({ IF ~r.ok
               THEN [ok |-> FALSE, calls |-> calls, lstms |-> lstms]
               ELSE LSTMLoop([lstms EXCEPT ![i] = r.layer], i + 1, r.out, states_in,
                             Append(hs, r.h), Append(cs, r.c),
                             Append(calls, [layer |-> lstms[i].kernel, x |-> out,
                                            h0 |-> r.h0, c0 |-> r.c0,
                                            out |-> r.out, h |-> r.h, c |-> r.c]))
             : r \in { [h0 |-> h0, c0 |-> c0] @@ LSTMCall(lstms[i], out, h0, c0)
                         : h0 \in {Slice0(states_in.h, i)},
                           c0 \in {Slice0(states_in.c, i)} } })

\* inputs[STATE_IN] is a dict of two rank-3 tensors, as the transpose needs.
Transposable(sin) ==
  /\ IsDict(sin)
  /\ {"h", "c"} \subseteq DOMAIN sin.items
  /\ \A k \in {"h", "c"} : IsTensor(sin.items[k]) /\ Rank(sin.items[k]) = 3

\* TfLSTMEncoder._forward
LSTMForward(slf, inputs) ==
  IF ~Transposable(inputs.items[STATE_IN])
    THEN [ok |-> FALSE, calls |-> <<>>, linear_calls |-> <<>>, self |-> slf]
    ELSE The({ IF ~run.ok
                 THEN [ok |-> FALSE, calls |-> run.calls, linear_calls |-> <<>>,
                       self |-> [slf EXCEPT !.lstms = run.lstms]]
                 ELSE [ok |-> TRUE,
                       value |-> Dict([encoder_out |-> DenseCall(slf.linear, run.out),
                                       state_out |-> Dict([h |-> Stack1(run.hs),
                                                           c |-> Stack1(run.cs)])]),
                       calls |-> run.calls,
                       linear_calls |-> <<[x |-> run.out]>>,
                       self |-> [slf EXCEPT !.lstms = run.lstms]]
               : run \in { LSTMLoop(slf.lstms, 1, Cast(inputs.items[OBS], "float32"),
                                    StatesIn(inputs.items[STATE_IN]), <<>>, <<>>, <<>>) } })

(* ------------------------- Model.forward (base) ------------------------ *)
InputSpecs(slf) ==
  CASE slf.kind = "cnn" -> CNNInputSpecs(slf)
    [] slf.kind = "mlp" -> MLPInputSpecs(slf)
    [] slf.kind = "lstm" -> LSTMInputSpecs(slf)

OutputSpecs(slf) ==
  CASE slf.kind = "cnn" -> CNNOutputSpecs(slf)
    [] slf.kind = "mlp" -> MLPOutputSpecs(slf)
    [] slf.kind = "lstm" -> LSTMOutputSpecs(slf)

InnerForward(slf, inputs) ==
  CASE slf.kind = "cnn" -> CNNForward(slf, inputs)
    [] slf.kind = "mlp" -> MLPForward(slf, inputs)
    [] slf.kind = "lstm" -> LSTMForward(slf, inputs)

\* forward(inputs): check the inputs against get_input_specs(), run _forward,
\* check its value against get_output_specs().  A violation names the
\* offending keys and yields no output; an error raised inside a layer of
\* the tensor library passes through as LayerError.
Forward(slf, inputs) ==
  IF Violations(inputs, InputSpecs(slf), <<>>) # {}
    THEN [status |-> "InputSpecViolation",
          keys |-> Violations(inputs, InputSpecs(slf), <<>>), out |-> None,
          calls |-> <<>>, linear_calls |-> <<>>, self |-> slf]
    ELSE The({ IF ~r.ok
                 THEN [status |-> "LayerError", keys |-> {}, out |-> None,
                       calls |-> r.calls, linear_calls |-> r.linear_calls, self |-> r.self]
                 ELSE The({ IF ov # {}
                              THEN [status |-> "OutputSpecViolation", keys |-> ov,
                                    out |-> None, calls |-> r.calls,
                                    linear_calls |-> r.linear_calls, self |-> r.self]
                              ELSE [status |-> "ok", keys |-> {}, out |-> r.value,
                                    calls |-> r.calls, linear_calls |-> r.linear_calls,
                                    self |-> r.self]
                            : ov \in {Violations(r.value, OutputSpecs(slf), <<>>)} })
               : r \in {InnerForward(slf, inputs)} })

(* ------------------------------ the caller ----------------------------- *)
SeedDtype(seed) == IF seed % 2 = 0 THEN "float32" ELSE "int32"

\* Observations the caller sends: every batch size (and sequence length) with
\* the configured dimensions, and ones that are off in one dimension or rank.
ValidObsShapes(slf) ==
  CASE slf.kind = "cnn" -> { <<b>> \o slf.config.input_dims : b \in 1..MaxBatch }
    [] slf.kind = "mlp" -> { <<b>> \o slf.config.input_dims : b \in 1..MaxBatch }
    [] slf.kind = "lstm" ->
         { <<b, t>> \o slf.config.input_dims : b \in 1..MaxBatch, t \in 1..MaxTime }

BadObsShapes(slf) ==
  LET d == slf.config.input_dims
  IN  CASE slf.kind = "cnn" ->
             { <<MaxBatch, d[1] + 1, d[2], d[3]>>, <<MaxBatch, d[1], d[2] + 1, d[3]>>,
               <<MaxBatch, d[1], d[2], d[3] + 1>>, <<MaxBatch, d[1], d[2]>> }
        [] slf.kind = "mlp" -> { <<MaxBatch, d[1] + 1>>, <<MaxBatch, 1, d[1]>> }
        [] slf.kind = "lstm" -> { <<1, 1, d[1] + 1>>, <<1, d[1]>> }

ValidObs(slf) ==
  { Fill(sh, SeedDtype(seed), seed) : sh \in ValidObsShapes(slf), seed \in 0..MaxSeed }

BadObs(slf) == { Fill(sh, "float32", 0) : sh \in BadObsShapes(slf) }

\* Recurrent states the caller makes for an LSTM encoder: batch-first (b, l, h)
\* for every batch size, h and c alike or with different batch sizes.
GoodStateShapes(slf) ==
  { <<b, slf.config.num_lstm_layers, slf.config.hidden_dim>> : b \in 1..MaxBatch }

GoodStates(slf) ==
  { Dict([h |-> Fill(sh, "float32", seed), c |-> Fill(sh, "float32", seed + 1)])
      : sh \in GoodStateShapes(slf), seed \in 0..MaxSeed }
  \cup { Dict([h |-> Zeros(hs), c |-> Zeros(cs)])
           : hs \in GoodStateShapes(slf), cs \in GoodStateShapes(slf) }

\* States off in the layer count, the hidden width or the rank of h or of c,
\* or lacking c.
BadStateShapes(slf) ==
  LET L == slf.config.num_lstm_layers
      H == slf.config.hidden_dim
  IN  { <<1, L + 1, H>>, <<1, L, H + 1>>, <<L, H>> }

BadStates(slf) ==
  LET good == <<1, slf.config.num_lstm_layers, slf.config.hidden_dim>>
  IN  { Dict([h |-> Fill(sh, "float32", 0), c |-> Fill(good, "float32", 1)])
          : sh \in BadStateShapes(slf) }
      \cup { Dict([h |-> Fill(good, "float32", 0), c |-> Fill(sh, "float32", 1)])
               : sh \in BadStateShapes(slf) }
      \cup { Dict([h |-> Zeros(good)]) }

\* What a caller may hand a stateless encoder as state: nothing, zeros, anything.
LooseStates ==
  { None, Zeros(<<1, 1, 2>>),
    Dict([h |-> Fill(<<2, 1, 1>>, "float32", 0), c |-> Fill(<<2, 1, 1>>, "float32", 1)]) }

\* One valid observation and one valid state, to pair with the invalid ones.
SomeObs(slf) == CHOOSE o \in ValidObs(slf) : o.shape[1] = 1
SomeState(slf) == CHOOSE st \in GoodStates(slf) : st.items["h"].shape[1] = 1

CallerInputs(slf) ==
  CASE slf.kind = "cnn" ->
         { Dict([obs |-> o, state_in |-> st, seq_lens |-> None])
             : o \in ValidObs(slf), st \in LooseStates }
         \cup { Dict([obs |-> o, state_in |-> None, seq_lens |-> Fill(<<o.shape[1]>>, "int32", 1)])
                  : o \in ValidObs(slf) }
         \cup { Dict([obs |-> o, state_in |-> None, seq_lens |-> None]) : o \in BadObs(slf) }
         \cup { Dict([obs |-> SomeObs(slf), seq_lens |-> None]),
                Dict([obs |-> SomeObs(slf), state_in |-> None]),
                Dict([state_in |-> None, seq_lens |-> None]) }
    [] slf.kind = "mlp" ->
         { Dict([obs |-> o]) : o \in ValidObs(slf) \cup BadObs(slf) }
         \cup { Dict([obs |-> o, state_in |-> st]) : o \in ValidObs(slf), st \in LooseStates }
         \cup { Dict([state_in |-> None]) }
    [] slf.kind = "lstm" ->
         { Dict([obs |-> o, state_in |-> st]) : o \in ValidObs(slf), st \in GoodStates(slf) }
         \cup { Dict([obs |-> o, state_in |-> SomeState(slf)]) : o \in BadObs(slf) }
         \cup { Dict([obs |-> SomeObs(slf), state_in |-> st]) : st \in BadStates(slf) }
         \cup { Dict([obs |-> SomeObs(slf)]), Dict([state_in |-> SomeState(slf)]) }

\* The inputs of a call that feeds state st back in with a new observation.
StateInputs(slf, o, st) ==
  IF slf.kind = "cnn" THEN Dict([obs |-> o, state_in |-> st, seq_lens |-> None])
  ELSE Dict([obs |-> o, state_in |-> st])

\* The observation that follows o: same shape, every element moved on by one.
NextObs(o) == [o EXCEPT !.data = [idx \in DOMAIN o.data |-> (o.data[idx] + 1) % Modulus]]

RepeatInputs(slf, inputs) ==
  {inputs} \cup
    IF slf.kind = "lstm" THEN {}
    ELSE { StateInputs(slf, inputs.items[OBS], st) : st \in LooseStates }

Call(origin, inputs, r) ==
  [tag |-> "call", origin |-> origin, inputs |-> inputs,
   result |-> [status |-> r.status, keys |-> r.keys, out |-> r.out,
               calls |-> r.calls, linear_calls |-> r.linear_calls]]

(* ------------------------------- actions ------------------------------- *)
Encoders ==
  { TfCNNEncoder(c) : c \in CNNConfigs } \cup { TfMLPEncoder(c) : c \in MLPConfigs }
    \cup { TfLSTMEncoder(c) : c \in LSTMConfigs }

Init ==
  /\ self \in Encoders
  /\ last = None
  /\ state0 = None
  /\ chain = 0

\* The first call of an episode: encoder.forward(inputs) on inputs the caller
\* built from scratch.
ForwardFresh ==
  /\ last = None
  /\ state0 = None
  /\ \E inputs \in CallerInputs(self) :
       \E r \in {Forward(self, inputs)} :
         /\ last' = Call("fresh", inputs, r)
         /\ self' = r.self
         /\ UNCHANGED <<state0, chain>>

\* state = encoder.get_initial_state(), at the start of an episode.
GetInitialState ==
  /\ self.kind = "lstm"
  /\ last = None
  /\ state0 = None
  /\ \E attr \in 0..MaxLayers : state0' = LSTMGetInitialState(self, attr)
  /\ UNCHANGED <<self, last, chain>>

\* encoder.forward({OBS: obs, STATE_IN: state}) with the state get_initial_state gave.
ForwardInitial ==
  /\ last = None
  /\ IsDict(state0)
  /\ \E o \in ValidObs(self) :
       \E r \in {Forward(self, StateInputs(self, o, state0))} :
         /\ last' = Call("initial", StateInputs(self, o, state0), r)
         /\ self' = r.self
         /\ UNCHANGED <<state0, chain>>

\* encoder.forward({OBS: obs, STATE_IN: previous STATE_OUT}): state threading,
\* with the previous observation again or with the next one.
ForwardThreaded ==
  /\ last.tag = "call"
  /\ last.result.status = "ok"
  /\ chain < MaxChain
  /\ \E o \in {last.inputs.items[OBS], NextObs(last.inputs.items[OBS])} :
       \E r \in {Forward(self, StateInputs(self, o, last.result.out.items[STATE_OUT]))} :
         /\ last' = Call("threaded",
                         StateInputs(self, o, last.result.out.items[STATE_OUT]), r)
         /\ self' = r.self
         /\ chain' = chain + 1
         /\ UNCHANGED state0

\* The caller repeats a call: the same observation, with the same state or,
\* for the stateless encoders, with any other.
ForwardRepeat ==
  /\ last.tag = "call"
  /\ last.result.status = "ok"
  /\ \E inputs \in RepeatInputs(self, last.inputs) :
       \E r \in {Forward(self, inputs)} :
         /\ last' = Call("repeat", inputs, r)
         /\ self' = r.self
         /\ UNCHANGED <<state0, chain>>

Next ==
  \/ ForwardFresh
  \/ GetInitialState
  \/ ForwardInitial
  \/ ForwardThreaded
  \/ ForwardRepeat

Spec == Init /\ [][Next]_vars

(* ======================== properties and witnesses ===================== *)
Called == last.tag = "call"
Succeeded == Called /\ last.result.status = "ok"
Config == self.config
HasKey(d, k) == IsDict(d) /\ k \in DOMAIN d.items

\* Batch size of an LSTM observation: axis 0 when batch_major, else axis 1.
ObsBatch(o) == IF Config.batch_major THEN o.shape[1] ELSE o.shape[2]

\* The inputs name a recurrent state of the shape the LSTM input spec asks for.
StateShaped(inputs) ==
  /\ HasKey(inputs, STATE_IN)
  /\ HasKey(inputs.items[STATE_IN], "h") /\ HasKey(inputs.items[STATE_IN], "c")
  /\ \A k \in {"h", "c"} :
       /\ IsTensor(inputs.items[STATE_IN].items[k])
       /\ Rank(inputs.items[STATE_IN].items[k]) = 3
       /\ inputs.items[STATE_IN].items[k].shape[2] = Config.num_lstm_layers
       /\ inputs.items[STATE_IN].items[k].shape[3] = Config.hidden_dim

\* The inputs name an observation of the rank and bound sizes of the input spec.
ObsShaped(inputs) ==
  /\ HasKey(inputs, OBS)
  /\ IsTensor(inputs.items[OBS])
  /\ CASE self.kind = "cnn" ->
            /\ Rank(inputs.items[OBS]) = 4
            /\ Tail(inputs.items[OBS].shape) = Config.input_dims
       [] self.kind = "mlp" ->
            /\ Rank(inputs.items[OBS]) = 2
            /\ inputs.items[OBS].shape[2] = Config.input_dims[1]
       [] self.kind = "lstm" ->
            /\ Rank(inputs.items[OBS]) = 3
            /\ inputs.items[OBS].shape[3] = Config.input_dims[1]

\* The inputs satisfy get_input_specs() of the encoder.
ValidInputs(inputs) ==
  /\ ObsShaped(inputs)
  /\ self.kind = "cnn" => HasKey(inputs, STATE_IN) /\ HasKey(inputs, SEQ_LENS)
  /\ self.kind = "lstm" => StateShaped(inputs)

\* h and c of STATE_IN carry the batch size of the observation.
BatchConsistent(inputs) ==
  self.kind = "lstm" =>
    \A k \in {"h", "c"} :
      inputs.items[STATE_IN].items[k].shape[1] = ObsBatch(inputs.items[OBS])

\* The output holds ENCODER_OUT and STATE_OUT as get_output_specs() declares.
OutputAsDeclared(inputs, out) ==
  /\ HasKey(out, ENCODER_OUT) /\ HasKey(out, STATE_OUT)
  /\ IsTensor(out.items[ENCODER_OUT])
  /\ out.items[ENCODER_OUT].shape =
       IF self.kind = "lstm"
         THEN <<inputs.items[OBS].shape[1], inputs.items[OBS].shape[2], Config.output_dims[1]>>
         ELSE <<inputs.items[OBS].shape[1], Config.output_dims[1]>>
  /\ self.kind = "lstm" =>
       /\ HasKey(out.items[STATE_OUT], "h") /\ HasKey(out.items[STATE_OUT], "c")
       /\ \A k \in {"h", "c"} :
            /\ IsTensor(out.items[STATE_OUT].items[k])
            /\ out.items[STATE_OUT].items[k].shape =
                 <<ObsBatch(inputs.items[OBS]), Config.num_lstm_layers, Config.hidden_dim>>

\* C1: the state get_initial_state() returns, fed to forward as STATE_IN, passes
\* input validation and yields a STATE_OUT whose h and c have the shape of the
\* state fed in, and that STATE_OUT is accepted as STATE_IN by a second call.
C1_InitialStateRoundTrip ==
  (Called /\ last.origin = "initial") =>
    /\ last.result.status = "ok"
    /\ \A k \in {"h", "c"} :
         last.result.out.items[STATE_OUT].items[k].shape =
           last.inputs.items[STATE_IN].items[k].shape
    /\ Forward(self, StateInputs(self, last.inputs.items[OBS],
                                 last.result.out.items[STATE_OUT])).status = "ok"

\* C2 as stated: every input that satisfies get_input_specs() makes forward
\* succeed with an output that satisfies get_output_specs().
C2_EveryValidInputSucceeds ==
  (Called /\ ValidInputs(last.inputs)) =>
    /\ last.result.status = "ok"
    /\ OutputAsDeclared(last.inputs, last.result.out)

\* C2 amended: every input that satisfies get_input_specs() and, for the LSTM
\* encoder, whose STATE_IN h and c have the observation's batch size, makes
\* forward succeed with ENCODER_OUT of the declared rank and feature size and
\* STATE_OUT of the declared structure.
C2_ConsistentValidInputSucceeds ==
  (Called /\ ValidInputs(last.inputs) /\ BatchConsistent(last.inputs)) =>
    /\ last.result.status = "ok"
    /\ OutputAsDeclared(last.inputs, last.result.out)

C2_Witness ==
  /\ Succeeded /\ self.kind = "lstm" /\ last.origin = "fresh"
  /\ ValidInputs(last.inputs) /\ BatchConsistent(last.inputs)
  /\ ObsBatch(last.inputs.items[OBS]) = MaxBatch
  /\ Config.num_lstm_layers = 1

\* C3: in a successful LSTM forward, layer l starts from exactly the slice
\* STATE_IN[b, l, :] of h and of c, and STATE_OUT[b, l, h] is exactly what layer
\* l produced for batch b at hidden index h: no index is permuted.
C3_StateLayout ==
  (Succeeded /\ self.kind = "lstm") =>
    \A l \in 1..Config.num_lstm_layers :
      \A b \in 1..ObsBatch(last.inputs.items[OBS]) :
        \A k \in 1..Config.hidden_dim :
          /\ last.result.calls[l].h0.data[<<b, k>>] =
               last.inputs.items[STATE_IN].items["h"].data[<<b, l, k>>]
          /\ last.result.calls[l].c0.data[<<b, k>>] =
               last.inputs.items[STATE_IN].items["c"].data[<<b, l, k>>]
          /\ last.result.out.items[STATE_OUT].items["h"].data[<<b, l, k>>] =
               last.result.calls[l].h.data[<<b, k>>]
          /\ last.result.out.items[STATE_OUT].items["c"].data[<<b, l, k>>] =
               last.result.calls[l].c.data[<<b, k>>]

\* A successful call on two layers, batch 2 and hidden width 2 whose incoming
\* hidden state differs between the two layers of one batch element.
C3_Witness ==
  /\ Succeeded /\ self.kind = "lstm"
  /\ Config.num_lstm_layers = 2 /\ Config.hidden_dim = 2
  /\ ObsBatch(last.inputs.items[OBS]) = 2
  /\ last.inputs.items[STATE_IN].items["h"].data[<<1, 2, 1>>] #
       last.inputs.items[STATE_IN].items["h"].data[<<2, 1, 1>>]

\* C4: the STATE_OUT spec of the LSTM encoder is its STATE_IN spec; a successful
\* call returns h and c of exactly the shape of the h and c fed in; and every
\* call that feeds the previous STATE_OUT back as STATE_IN passes input and
\* output validation.
C4_StateShapeThreads ==
  self.kind = "lstm" =>
    /\ LSTMOutputSpecs(self).items[STATE_OUT] = LSTMInputSpecs(self).items[STATE_IN]
    /\ Succeeded =>
         \A k \in {"h", "c"} :
           last.result.out.items[STATE_OUT].items[k].shape =
             last.inputs.items[STATE_IN].items[k].shape
    /\ (Called /\ last.origin = "threaded") => last.result.status = "ok"

C4_Witness ==
  /\ Succeeded /\ self.kind = "lstm" /\ last.origin = "threaded" /\ chain = MaxChain
  /\ Config.num_lstm_layers = 2

\* C5: a successful TfMLPEncoder forward returns STATE_OUT = None, whether
\* STATE_IN was absent, zero or arbitrary.
C5_MLPStateless ==
  (Succeeded /\ self.kind = "mlp") => last.result.out.items[STATE_OUT] = None

\* An MLP call that was handed a recurrent state.
C5_Witness ==
  /\ Succeeded /\ self.kind = "mlp"
  /\ HasKey(last.inputs, STATE_IN)
  /\ IsDict(last.inputs.items[STATE_IN])

\* C6: a successful TfCNNEncoder forward returns the STATE_IN value itself as
\* STATE_OUT, and two calls on the same observation return the same ENCODER_OUT
\* whatever state they were handed.
C6_CNNPassThrough ==
  /\ [](Succeeded /\ self.kind = "cnn" =>
          last.result.out.items[STATE_OUT] = last.inputs.items[STATE_IN])
  /\ [][(/\ self.kind = "cnn" /\ Succeeded /\ last'.tag = "call"
         /\ last'.result.status = "ok"
         /\ last'.inputs.items[OBS] = last.inputs.items[OBS])
          => last'.result.out.items[ENCODER_OUT] = last.result.out.items[ENCODER_OUT]]_vars

\* A repeated CNN call that carried a recurrent state through.
C6_Witness ==
  /\ Succeeded /\ self.kind = "cnn" /\ last.origin = "repeat"
  /\ IsDict(last.inputs.items[STATE_IN])
  /\ last.result.out.items[STATE_OUT] = last.inputs.items[STATE_IN]

\* C7: an input that lacks a key of get_input_specs(), or whose tensor has the
\* wrong rank or a wrong bound dimension, makes forward fail with an input spec
\* violation that names the key, and no output; a CNN encoder with input_dims
\* (4,4,3) and output_dims (8,) maps (2,4,4,3) to ENCODER_OUT (2,8) and rejects
\* (2,5,4,3).
C7_FailFast ==
  Called =>
    /\ ~ObsShaped(last.inputs) =>
         /\ last.result.status = "InputSpecViolation"
         /\ <<OBS>> \in last.result.keys
         /\ last.result.out = None
    /\ (self.kind = "cnn" /\ ~HasKey(last.inputs, STATE_IN)) =>
         last.result.status = "InputSpecViolation" /\ <<STATE_IN>> \in last.result.keys
    /\ (self.kind = "cnn" /\ ~HasKey(last.inputs, SEQ_LENS)) =>
         last.result.status = "InputSpecViolation" /\ <<SEQ_LENS>> \in last.result.keys
    /\ (self.kind = "lstm" /\ ~StateShaped(last.inputs)) =>
         /\ last.result.status = "InputSpecViolation"
         /\ last.result.keys \cap {<<STATE_IN>>, <<STATE_IN, "h">>, <<STATE_IN, "c">>} # {}
         /\ last.result.out = None
    /\ (/\ self.kind = "cnn" /\ Config.input_dims = <<4, 4, 3>>
        /\ Config.output_dims = <<8>> /\ HasKey(last.inputs, OBS)) =>
         /\ (last.inputs.items[OBS].shape = <<2, 4, 4, 3>> /\ ValidInputs(last.inputs)) =>
              /\ last.result.status = "ok"
              /\ last.result.out.items[ENCODER_OUT].shape = <<2, 8>>
         /\ last.inputs.items[OBS].shape = <<2, 5, 4, 3>> =>
              /\ last.result.status = "InputSpecViolation"
              /\ last.result.keys = {<<OBS>>}

\* The CNN encoder of the example rejecting an observation of shape (2,5,4,3).
C7_Witness ==
  /\ Called /\ self.kind = "cnn"
  /\ Config.input_dims = <<4, 4, 3>> /\ Config.output_dims = <<8>>
  /\ HasKey(last.inputs, OBS)
  /\ last.inputs.items[OBS].shape = <<2, 5, 4, 3>>
  /\ last.result.status = "InputSpecViolation"

\* The width of the last layer the constructor built.
FinalUnits ==
  CASE self.kind = "cnn" -> self.net[3].units
    [] self.kind = "mlp" -> self.net[Len(self.net)].units
    [] self.kind = "lstm" -> self.linear.units

\* C8: get_output_specs() binds the last dimension of ENCODER_OUT to
\* output_dims[0] and no other dimension, the final projection layer has that
\* width, and so has every ENCODER_OUT returned, whatever the batch size.
C8_FeatureDim ==
  /\ FinalUnits = Config.output_dims[1]
  /\ \E spec \in {OutputSpecs(self).items[ENCODER_OUT]} :
       /\ spec.dims = IF self.kind = "lstm" THEN <<"b", "t", "d">> ELSE <<"b", "d">>
       /\ DOMAIN spec.bound = {"d"}
       /\ spec.bound["d"] = Config.output_dims[1]
  /\ Succeeded =>
       \E o \in {last.result.out.items[ENCODER_OUT]} :
         o.shape[Len(o.shape)] = Config.output_dims[1]

C8_Witness ==
  /\ Succeeded /\ self.kind = "lstm"
  /\ last.inputs.items[OBS].shape[1] = MaxBatch
  /\ Config.output_dims[1] # Config.hidden_dim
  /\ Config.output_dims[1] # Config.input_dims[1]

C10_LayerOrder ==
  self.kind = "lstm" =>
    /\ Len(self.lstms) = Config.num_lstm_layers
    /\ Succeeded =>
         /\ Len(last.result.calls) = Config.num_lstm_layers
         /\ \A i \in 1..Len(last.result.calls) :
              /\ last.result.calls[i].layer = self.lstms[i].kernel
              /\ last.result.calls[i].x =
                   IF i = 1 THEN [last.inputs.items[OBS] EXCEPT !.dtype = "float32"]
                            ELSE last.result.calls[i - 1].out
              /\ Rank(last.result.calls[i].out) = 3
         /\ \A k \in {"h", "c"} :
              last.result.out.items[STATE_OUT].items[k].shape[2] = Config.num_lstm_layers
         /\ \A i \in 1..Len(last.result.calls) :
              \A b \in 1..ObsBatch(last.inputs.items[OBS]) :
                last.result.out.items[STATE_OUT].items["h"].data[<<b, i, 1>>] =
                  last.result.calls[i].h.data[<<b, 1>>]
         /\ Len(last.result.linear_calls) = 1
         /\ last.result.linear_calls[1].x =
              last.result.calls[Config.num_lstm_layers].out

\* A successful call through two layers on an integer observation of length 2.
C10_Witness ==
  /\ Succeeded /\ self.kind = "lstm" /\ Config.num_lstm_layers = 2
  /\ last.inputs.items[OBS].dtype = "int32"
  /\ last.inputs.items[OBS].shape[1] = 2 /\ last.inputs.items[OBS].shape[2] = 2
====
